---- MODULE Spec2Model ----
(***************************************************************************)
(* Model of SpotifyTranscriber: the SpotifyBrowser session handle          *)
(* (src/utils/spotify_browser.py) and the extract_transcription            *)
(* orchestrator (src/utils/transcription_extractor.py).                    *)
(*                                                                         *)
(* One handle is modelled.  Every method of the handle is one action that  *)
(* runs the whole method; what the browser, the network and the page do    *)
(* during the call is an input of the action.  Every call of the method    *)
(* into Playwright or requests is recorded in `trace`, the method's        *)
(* outcome in `result`.                                                    *)
(***************************************************************************)
EXTENDS Naturals, Sequences, FiniteSets

VARIABLES
    PLAYWRIGHT_AVAILABLE, \* module flag set by the import of playwright
    h,              \* the fields of the SpotifyBrowser object
    constructed,    \* __init__ has run
    liveDriver,     \* the Playwright driver process is running
    liveBrowsers,   \* engines whose launched browser process is running
    liveContexts,   \* engines whose browser context is open
    livePages,      \* engines whose page is open
    liveSession,    \* the requests.Session is open
    jar,            \* names of the cookies in the session's cookie jar
    closeCalls,     \* close() calls made by the caller since construction
    trace,          \* the library calls made by the last method call
    result,         \* the last method call and its outcome
    dom,            \* the DOM the page showed to the last method call
    lastNav,        \* how the latest navigate_to_episode call of a
                    \* requests-mode handle ended
    spotify_browser, \* app.py: the module-level handle (0: None)
    handles,        \* app.py: the SpotifyBrowser objects the handlers made
    clientSessions, \* app.py: the Flask session cookies issued to clients,
                    \* each by whether it holds credentials
    handleLog,      \* app.py: per handle, which variable it was made for,
                    \* how its latest login call ended, whether close()
                    \* was called on it
    reqs,           \* app.py: the requests being handled, one per thread
    started         \* app.py: requests received so far

vars == <<PLAYWRIGHT_AVAILABLE, h, constructed, liveDriver, liveBrowsers,
          liveContexts, livePages, liveSession, jar, closeCalls, trace, result,
          dom, lastNav, spotify_browser, handles, clientSessions, handleLog, reqs,
          started>>

\* the state of the web application (src/app.py)
appVars == <<spotify_browser, handles, clientSessions, handleLog, reqs, started>>

\* the state of the single handle driven directly
handleVars ==
    <<h, constructed, liveDriver, liveBrowsers, liveContexts, livePages,
      liveSession, jar, closeCalls, trace, result, dom, lastNav>>

----------------------------------------------------------------------------
(* Bounds *)

\* close() calls counted before the counter saturates
MaxCloseCalls == 2

\* requests the web application handles at the same time
MaxRequests == 2

\* requests the web application receives in a run
MaxStarted == 3

----------------------------------------------------------------------------
(* Values *)

None == "None"

\* the three try blocks of _initialize_browser, in source order
Engines == <<"chromium", "firefox", "webkit">>

EngineSet == {Engines[i] : i \in 1..Len(Engines)}

\* outcome of a method call: a value, or an exception reaching the caller
RetBool(b) == [tag |-> "bool", b |-> b, t |-> <<>>]
RetNone == [tag |-> "none", b |-> FALSE, t |-> <<>>]
RetText(t) == [tag |-> "text", b |-> FALSE, t |-> t]
Raised == [tag |-> "raised", b |-> FALSE, t |-> <<>>]

\* one call into Playwright / requests (or of a handle method by the
\* orchestrator): what was called, on what, and how it ended
Ev(fn, arg, out) == [fn |-> fn, arg |-> arg, out |-> out]

\* a call that gave back a list of elements: val holds their texts
EvVal(fn, arg, out, val) == [fn |-> fn, arg |-> arg, out |-> out, val |-> val]

\* the handle before __init__ has assigned anything
NoHandle ==
    [playwright |-> None, browser |-> None, context |-> None, page |-> None,
     browser_mode |-> None, session |-> None,
     has_html |-> FALSE, episode_html |-> None]

\* the resources outside the handle that its methods act on
Env(d, b, c, p) == [driver |-> d, browsers |-> b, contexts |-> c, pages |-> p]

----------------------------------------------------------------------------
(* SpotifyBrowser.is_active *)

is_active(hh) == hh.page # None /\ hh.browser # None

----------------------------------------------------------------------------
(* SpotifyBrowser.close                                                    *)
(* failAt names the release call that raises ("none": no call raises).     *)
(* A call that raises releases nothing.  Closing a browser closes its      *)
(* contexts and pages; stopping the driver ends every browser it launched. *)

CloseSteps == {"none", "context", "browser", "playwright"}

close(hh, env, failAt) ==
    LET doCtx == hh.context # None
        ctxRaise == doCtx /\ failAt = "context"
        doBrw == ~ctxRaise /\ hh.browser # None
        brwRaise == doBrw /\ failAt = "browser"
        doPw == ~ctxRaise /\ ~brwRaise /\ hh.playwright # None
        pwRaise == doPw /\ failAt = "playwright"
        caught == ctxRaise \/ brwRaise \/ pwRaise
        c1 == IF doCtx /\ ~ctxRaise THEN env.contexts \ {hh.context} ELSE env.contexts
        p1 == IF doCtx /\ ~ctxRaise THEN env.pages \ {hh.context} ELSE env.pages
        b2 == IF doBrw /\ ~brwRaise THEN env.browsers \ {hh.browser} ELSE env.browsers
        c2 == IF doBrw /\ ~brwRaise THEN c1 \ {hh.browser} ELSE c1
        p2 == IF doBrw /\ ~brwRaise THEN p1 \ {hh.browser} ELSE p1
        stopped == doPw /\ ~pwRaise
    IN  [h |-> IF caught THEN hh
               ELSE [hh EXCEPT !.page = None, !.context = None,
                               !.browser = None, !.playwright = None],
         env |-> Env(IF stopped THEN FALSE ELSE env.driver,
                     IF stopped THEN {} ELSE b2,
                     IF stopped THEN {} ELSE c2,
                     IF stopped THEN {} ELSE p2),
         ret |-> RetNone,
         trace |-> (IF doCtx THEN <<Ev("context.close", hh.context,
                                       IF ctxRaise THEN "raise" ELSE "ok")>> ELSE <<>>)
                \o (IF doBrw THEN <<Ev("browser.close", hh.browser,
                                       IF brwRaise THEN "raise" ELSE "ok")>> ELSE <<>>)
                \o (IF doPw THEN <<Ev("playwright.stop", hh.playwright,
                                      IF pwRaise THEN "raise" ELSE "ok")>> ELSE <<>>)]

----------------------------------------------------------------------------
(* SpotifyBrowser._initialize_browser                                      *)
(* An engine attempt is launch, new_context, new_page; `o` names the call  *)
(* of the attempt that raises ("ok": none).                                *)

EngineOutcomes == {"ok", "launch", "context", "page"}

\* TryEngine without the `return` that ends _initialize_browser after a
\* successful attempt: the next engine is tried all the same
TryEngine_no_return(s, e, o) ==
    [done |-> s.done \/ (o = "ok"),
     browser |-> IF o = "launch" THEN s.browser ELSE e,
     context |-> IF o \in {"launch", "context"} THEN s.context ELSE e,
     page |-> IF o = "ok" THEN e ELSE s.page,
     env |-> Env(s.env.driver,
                 IF o = "launch" THEN s.env.browsers ELSE s.env.browsers \cup {e},
                 IF o \in {"launch", "context"} THEN s.env.contexts
                                               ELSE s.env.contexts \cup {e},
                 IF o = "ok" THEN s.env.pages \cup {e} ELSE s.env.pages),
     trace |-> s.trace
        \o <<Ev("launch", e, IF o = "launch" THEN "raise" ELSE "ok")>>
        \o (IF o = "launch" THEN <<>>
            ELSE <<Ev("new_context", e, IF o = "context" THEN "raise" ELSE "ok")>>)
        \o (IF o \in {"launch", "context"} THEN <<>>
            ELSE <<Ev("new_page", e, IF o = "page" THEN "raise" ELSE "ok")>>)]

\* one `try: launch / new_context / new_page / return  except: log` block
TryEngine(s, e, o) ==
    IF s.done THEN s
    ELSE [done |-> (o = "ok"),
          browser |-> IF o = "launch" THEN s.browser ELSE e,
          context |-> IF o \in {"launch", "context"} THEN s.context ELSE e,
          page |-> IF o = "ok" THEN e ELSE s.page,
          env |-> Env(s.env.driver,
                      IF o = "launch" THEN s.env.browsers ELSE s.env.browsers \cup {e},
                      IF o \in {"launch", "context"} THEN s.env.contexts
                                                    ELSE s.env.contexts \cup {e},
                      IF o = "ok" THEN s.env.pages \cup {e} ELSE s.env.pages),
          trace |-> s.trace
             \o <<Ev("launch", e, IF o = "launch" THEN "raise" ELSE "ok")>>
             \o (IF o = "launch" THEN <<>>
                 ELSE <<Ev("new_context", e, IF o = "context" THEN "raise" ELSE "ok")>>)
             \o (IF o \in {"launch", "context"} THEN <<>>
                 ELSE <<Ev("new_page", e, IF o = "page" THEN "raise" ELSE "ok")>>)]

\* startOk: sync_playwright().start() returns; outs: outcome per engine;
\* failAt: the release call that raises in the close() of the failure path.
\* `raised` tells __init__ whether the method re-raised.
initialize_browser(hh, env, startOk, outs, failAt) ==
    IF ~startOk
    THEN LET c == close(hh, env, failAt)
         IN  [h |-> c.h, env |-> c.env, raised |-> TRUE,
              trace |-> <<Ev("playwright.start", "", "raise")>> \o c.trace]
    ELSE LET s0 == [done |-> FALSE, browser |-> hh.browser, context |-> hh.context,
                    page |-> hh.page,
                    env |-> Env(TRUE, env.browsers, env.contexts, env.pages),
                    trace |-> <<Ev("playwright.start", "", "ok")>>]
             s1 == TryEngine(s0, Engines[1], outs[Engines[1]])
             s2 == TryEngine(s1, Engines[2], outs[Engines[2]])
             s3 == TryEngine(s2, Engines[3], outs[Engines[3]])
             h3 == [hh EXCEPT !.playwright = "driver", !.browser = s3.browser,
                              !.context = s3.context, !.page = s3.page]
         IN  IF s3.done
             THEN [h |-> h3, env |-> s3.env, raised |-> FALSE, trace |-> s3.trace]
             ELSE LET c == close(h3, s3.env, failAt)
                  IN  [h |-> c.h, env |-> c.env, raised |-> TRUE,
                       trace |-> s3.trace \o c.trace]

----------------------------------------------------------------------------
(* SpotifyBrowser.__init__ *)

init(env, avail, startOk, outs, failAt) ==
    LET ib == initialize_browser(NoHandle, env, startOk, outs, failAt)
        hb == IF ~avail THEN [NoHandle EXCEPT !.browser_mode = "requests"]
              ELSE IF ib.raised THEN [ib.h EXCEPT !.browser_mode = "requests"]
              ELSE [ib.h EXCEPT !.browser_mode = "playwright"]
    IN  [h |-> [hb EXCEPT !.session = "session"],
         env |-> IF avail THEN ib.env ELSE env,
         ret |-> RetNone,
         trace |-> IF avail THEN ib.trace ELSE <<>>]

----------------------------------------------------------------------------
(* Strings.  A URL or a cookie name is the sequence of its pieces; Python's *)
(* `needle in text` is the search for the needle's pieces, in a row, in    *)
(* the text.  Transcript text is a sequence of one-character strings.      *)

Contains(needle, text) ==
    \E i \in 0..(Len(text) - Len(needle)) :
        \A j \in 1..Len(needle) : text[i + j] = needle[j]

\* the URLs the login methods load and post to
LOGIN_URL == <<"https://", "accounts.spotify.com", "/login">>
LOGIN_FORM_URL == <<"https://", "accounts.spotify.com", "/api/login">>

\* final URLs of a login POST, and locations of the page after a login
Urls ==
    { <<"https://", "open.spotify.com", "/">>,
      <<"https://", "accounts.spotify.com", "/en/status">>,
      <<"https://", "accounts.spotify.com", "/login">>,
      <<"https://", "accounts.spotify.com", "/login", "?continue=",
        "https://", "open.spotify.com", "/">> }

\* episode URLs the caller passes to navigate_to_episode
EpisodeUrls ==
    { <<"https://", "open.spotify.com", "/episode/", "1">>,
      <<"https://", "open.spotify.com", "/episode/", "2">> }

\* urlparse(url).netloc
netloc(url) == url[2]

\* names of cookies a response may set: one the login check accepts as a
\* session cookie, one it does not
SessionCookie == <<"spotify", "_", "sp_dc">>

TrackingCookie == <<"sp_t">>

CookieNames == {TrackingCookie, SessionCookie}

IsSpace(ch) == ch \in {" ", "\n"}

RECURSIVE lstrip(_)
lstrip(t) == IF t # <<>> /\ IsSpace(Head(t)) THEN lstrip(Tail(t)) ELSE t

RECURSIVE rstrip(_)
rstrip(t) ==
    IF t # <<>> /\ IsSpace(t[Len(t)]) THEN rstrip(SubSeq(t, 1, Len(t) - 1)) ELSE t

\* str.strip()
strip(t) == rstrip(lstrip(t))

RECURSIVE Concat(_)
Concat(ss) == IF ss = <<>> THEN <<>> ELSE Head(ss) \o Concat(Tail(ss))

\* smallest i in 1..n with ok[i], 0 if there is none
FirstHit(n, ok) ==
    IF \E i \in 1..n : ok[i]
    THEN CHOOSE i \in 1..n : ok[i] /\ \A j \in 1..(i - 1) : ~ok[j]
    ELSE 0

\* the page object can take calls: the handle references it and it is open
PageUsable(hh, env) == hh.page # None /\ hh.page \in env.pages

----------------------------------------------------------------------------
(* SpotifyBrowser._login_with_browser                                      *)
(* in.pre: the call up to the submit click that raises ("ok": none);       *)
(* in.banner: the error banner is attached within its wait;                *)
(* in.textOk: text_content of the banner returns;                          *)
(* in.vis[i]: success indicator i becomes visible within its wait;         *)
(* in.url: page.url when it is read.                                       *)

success_selectors ==
    << "a[href=\"/collection\"]",
       "[data-testid=\"spotify-logo\"]",
       "[data-testid=\"home-active-icon\"]" >>

error_selector == ".alert.alert-warning"

LoginPreSteps ==
    << Ev("page.goto", "login", "ok"),
       Ev("page.wait_for_selector", "#login-username", "ok"),
       Ev("page.fill", "#login-username", "ok"),
       Ev("page.fill", "#login-password", "ok"),
       Ev("page.click", "#login-button", "ok") >>

LoginPreOutcomes == {"ok", "goto", "form", "fill_username", "fill_password", "click"}

PreIndex(pre) ==
    CASE pre = "goto" -> 1
      [] pre = "form" -> 2
      [] pre = "fill_username" -> 3
      [] pre = "fill_password" -> 4
      [] pre = "click" -> 5
      [] OTHER -> 6

\* the calls up to the k-th, the k-th raising
RaisedAt(steps, k) ==
    [i \in 1..k |-> IF i = k THEN [steps[i] EXCEPT !.out = "raise"] ELSE steps[i]]

\* is the location one of the post-login locations
url_indicates_success(current_url) ==
    \/ Contains(<<"open.spotify.com">>, current_url)
    \/ Contains(<<"accounts.spotify.com", "/en/status">>, current_url)

\* the loop over success_selectors and the check of page.url after it
login_success_check(in) ==
    LET n == Len(success_selectors)
        hit == FirstHit(n, in.vis)
        last == IF hit = 0 THEN n ELSE hit
        polls == [i \in 1..last |->
                    Ev("page.wait_for_selector", success_selectors[i],
                       IF in.vis[i] THEN "ok" ELSE "raise")]
    IN  IF hit # 0
        THEN [ret |-> RetBool(TRUE), trace |-> polls]
        ELSE [ret |-> RetBool(url_indicates_success(in.url)),
              trace |-> polls \o <<Ev("page.url", in.url, "ok")>>]

\* login_with_browser without the outer try/except: a call that raises before
\* the submit, or the missing page of a closed handle, reaches the caller
login_with_browser_no_except(hh, env, in) ==
    LET k == IF PageUsable(hh, env) THEN PreIndex(in.pre) ELSE 1
    IN  IF hh.page = None
        THEN [ret |-> Raised, trace |-> <<>>]
        ELSE IF k <= Len(LoginPreSteps)
        THEN [ret |-> Raised, trace |-> RaisedAt(LoginPreSteps, k)]
        ELSE IF in.banner /\ in.textOk
        THEN [ret |-> RetBool(FALSE),
              trace |-> LoginPreSteps
                  \o <<Ev("page.wait_for_selector", error_selector, "ok"),
                       Ev("page.text_content", error_selector, "ok")>>]
        ELSE LET chk == login_success_check(in)
             IN  [ret |-> chk.ret,
                  trace |-> LoginPreSteps
                      \o (IF in.banner
                          THEN <<Ev("page.wait_for_selector", error_selector, "ok"),
                                 Ev("page.text_content", error_selector, "raise")>>
                          ELSE <<Ev("page.wait_for_selector", error_selector, "raise")>>)
                      \o chk.trace]

login_with_browser(hh, env, in) ==
    LET k == IF PageUsable(hh, env) THEN PreIndex(in.pre) ELSE 1
    IN  IF hh.page = None
        THEN [ret |-> RetBool(FALSE), trace |-> <<>>]
        ELSE IF k <= Len(LoginPreSteps)
        THEN [ret |-> RetBool(FALSE), trace |-> RaisedAt(LoginPreSteps, k)]
        ELSE IF in.banner /\ in.textOk
        THEN [ret |-> RetBool(FALSE),
              trace |-> LoginPreSteps
                  \o <<Ev("page.wait_for_selector", error_selector, "ok"),
                       Ev("page.text_content", error_selector, "ok")>>]
        ELSE LET chk == login_success_check(in)
             IN  [ret |-> chk.ret,
                  trace |-> LoginPreSteps
                      \o (IF in.banner
                          THEN <<Ev("page.wait_for_selector", error_selector, "ok"),
                                 Ev("page.text_content", error_selector, "raise")>>
                          ELSE <<Ev("page.wait_for_selector", error_selector, "raise")>>)
                      \o chk.trace]

----------------------------------------------------------------------------
(* SpotifyBrowser._login_with_requests                                     *)
(* A response is [raised, status, url, body, cookies]: the request raised, *)
(* or it ended with this status, final URL and body and set these cookies. *)

StatusOK == 200

\* the statuses a response can carry
Statuses == {StatusOK, 404}

NoUrl == <<>>

Resp(status, url, body, cookies) ==
    [raised |-> FALSE, status |-> status, url |-> url, body |-> body,
     cookies |-> cookies]

RespRaised ==
    [raised |-> TRUE, status |-> 0, url |-> NoUrl, body |-> None, cookies |-> {}]

\* the test on cookie.name in the login check
is_session_cookie(name) ==
    Contains(<<"spotify">>, name) /\ Contains(<<"sp_dc">>, name)

login_with_requests(hh, cookies, get, post) ==
    LET jar1 == cookies \cup get.cookies
        jar2 == jar1 \cup post.cookies
        evGet == Ev("session.get", LOGIN_URL, get)
        evPost == Ev("session.post", LOGIN_FORM_URL, post)
    IN  IF get.raised
        THEN [ret |-> RetBool(FALSE), jar |-> cookies, trace |-> <<evGet>>]
        ELSE IF get.status # StatusOK
        THEN [ret |-> RetBool(FALSE), jar |-> jar1, trace |-> <<evGet>>]
        ELSE IF post.raised
        THEN [ret |-> RetBool(FALSE), jar |-> jar1, trace |-> <<evGet, evPost>>]
        ELSE [ret |-> RetBool(\/ Contains(<<"open.spotify.com">>, post.url)
                              \/ \E c \in jar2 : is_session_cookie(c)),
              jar |-> jar2, trace |-> <<evGet, evPost>>]

\* SpotifyBrowser.login
login(hh, env, cookies, in) ==
    IF hh.browser_mode = "requests"
    THEN LET r == login_with_requests(hh, cookies, in.get, in.post)
         IN  [h |-> hh, jar |-> r.jar, ret |-> r.ret, trace |-> r.trace]
    ELSE LET r == login_with_browser(hh, env, in)
         IN  [h |-> hh, jar |-> cookies, ret |-> r.ret, trace |-> r.trace]

----------------------------------------------------------------------------
(* Documents: the DOM of the browser page, or the parse of an HTTP body.   *)
(* containers[i]: the element container selector i matches (0: none);      *)
(* elems: the container elements, each with the texts of its transcript    *)
(* items, of its `div > p` nodes and of its `div` nodes, and its own text; *)
(* pageItems: the texts of all transcript items of the document;           *)
(* link: the href of the first transcript hyperlink;                       *)
(* ld: the ld+json script blocks, each a dict with a transcript or not.    *)

transcript_selectors ==
    << "[data-testid=\"transcript-container\"]",
       ".transcript-container",
       "[aria-label=\"Transcript\"]",
       ".episode-transcript" >>

\* a document without a transcript hyperlink
NoLink == <<>>

Elem(items, ps, divs, text) ==
    [items |-> items, ps |-> ps, divs |-> divs, text |-> text]

Doc(containers, elems, pageItems, link, ld) ==
    [empty |-> FALSE, containers |-> containers, elems |-> elems,
     pageItems |-> pageItems, link |-> link, ld |-> ld]

\* the body "" of a response
EmptyBody ==
    [empty |-> TRUE, containers |-> <<0, 0, 0, 0>>, elems |-> <<>>,
     pageItems |-> <<>>, link |-> <<>>, ld |-> <<>>]

\* the page showed no DOM to the call: it read none
NoDom == EmptyBody

Ld(has, transcript) == [has |-> has, transcript |-> transcript]

DocPlain == Doc(<<0, 0, 0, 0>>, <<>>, <<>>, NoLink, <<>>)

DocItems ==
    Doc(<<0, 0, 1, 0>>,
        <<Elem(<< <<"a">>, <<" ", "b", "\n">> >>, <<>>, <<>>,
               <<"a", "\n", " ", "b", "\n">>)>>,
        << <<"a">>, <<" ", "b", "\n">> >>, NoLink, <<>>)

DocTwoContainers ==
    Doc(<<0, 2, 0, 1>>,
        <<Elem(<<>>, <<>>, << <<"c">> >>, <<"c">>),
          Elem(<<>>, << <<"a">>, <<" ">> >>, << <<"a", " ">> >>, <<"a", " ">>)>>,
        << <<"x">> >>, NoLink, <<>>)

DocBlank ==
    Doc(<<1, 0, 0, 0>>, <<Elem(<<>>, <<>>, <<>>, <<" ", "\n">>)>>, <<>>, NoLink, <<>>)

DocLinkLd ==
    Doc(<<0, 0, 0, 0>>, <<>>, <<>>, <<"/transcript">>, <<Ld(FALSE, <<>>), Ld(TRUE, <<" ", "f">>)>>)

DocLdEmpty ==
    Doc(<<0, 0, 0, 0>>, <<>>, <<>>,
        <<"https://", "open.spotify.com", "/transcript">>, <<Ld(TRUE, <<>>)>>)

\* a container whose only item-like nodes are generic block nodes
DocDivs ==
    Doc(<<1, 0, 0, 0>>, <<Elem(<<>>, <<>>, << <<"d", " ">> >>, <<"d", " ">>)>>,
        <<>>, NoLink, <<>>)

\* the DOMs a page can show
Docs ==
    {DocPlain, DocItems, DocTwoContainers, DocBlank, DocDivs, DocLinkLd, DocLdEmpty}

\* the bodies an HTTP response can carry
Bodies == Docs \cup {EmptyBody}

\* the bodies behind a transcript hyperlink
LinkedBodies == {DocPlain, DocItems}

\* find_container taking the last container selector that matches
find_container_last_match(doc) ==
    LET n == Len(transcript_selectors)
        k == IF \E i \in 1..n : doc.containers[i] # 0
             THEN CHOOSE i \in 1..n :
                    doc.containers[i] # 0 /\ \A j \in (i + 1)..n : doc.containers[j] = 0
             ELSE 0
    IN  [sel |-> k, elem |-> IF k = 0 THEN 0 ELSE doc.containers[k]]

\* the container the first matching container selector gives (0: none)
find_container(doc) ==
    LET k == FirstHit(Len(transcript_selectors),
                      [i \in 1..Len(transcript_selectors) |-> doc.containers[i] # 0])
    IN  [sel |-> k, elem |-> IF k = 0 THEN 0 ELSE doc.containers[k]]

\* the loop `for item in transcript_items` of the browser method
RECURSIVE join_items_browser(_)
join_items_browser(items) ==
    IF items = <<>> THEN <<>>
    ELSE (IF Len(strip(Head(items))) > 0
          THEN strip(Head(items)) \o <<"\n", "\n">> ELSE <<>>)
         \o join_items_browser(Tail(items))

\* the loop `for item in transcript_items` of the requests method;
\* item.get_text(strip=True) of an item holding one text node
RECURSIVE join_items_requests(_)
join_items_requests(items) ==
    IF items = <<>> THEN <<>>
    ELSE (IF strip(Head(items)) # <<>>
          THEN strip(Head(items)) \o <<"\n", "\n">> ELSE <<>>)
         \o join_items_requests(Tail(items))

----------------------------------------------------------------------------
(* SpotifyBrowser._navigate_to_episode_with_browser                        *)
(* in: the call that raises: "goto", "marker", or "ok" for none.           *)

NavOutcomes == {"ok", "goto", "marker"}

navigate_to_episode_with_browser(hh, env, episode_url, in) ==
    LET o == IF PageUsable(hh, env) THEN in ELSE "goto"
    IN  IF hh.page = None
        THEN [ret |-> RetBool(FALSE), trace |-> <<>>]
        ELSE IF o = "goto"
        THEN [ret |-> RetBool(FALSE),
              trace |-> <<Ev("page.goto", episode_url, "raise")>>]
        ELSE [ret |-> RetBool(o = "ok"),
              trace |-> <<Ev("page.goto", episode_url, "ok"),
                          Ev("page.wait_for_selector", "[data-testid=\"episode-page\"]",
                             IF o = "ok" THEN "ok" ELSE "raise")>>]

(* SpotifyBrowser._navigate_to_episode_with_requests *)

\* navigate_to_episode_with_requests without the test of the status: every
\* response that arrives counts as a success and its body is retained
navigate_to_episode_with_requests_any_status(hh, cookies, episode_url, resp) ==
    LET ev == Ev("session.get", episode_url, resp)
    IN  IF resp.raised
        THEN [h |-> hh, jar |-> cookies, ret |-> RetBool(FALSE), trace |-> <<ev>>]
        ELSE [h |-> [hh EXCEPT !.has_html = TRUE, !.episode_html = resp.body],
              jar |-> cookies \cup resp.cookies,
              ret |-> RetBool(TRUE), trace |-> <<ev>>]

navigate_to_episode_with_requests(hh, cookies, episode_url, resp) ==
    LET ev == Ev("session.get", episode_url, resp)
    IN  IF resp.raised
        THEN [h |-> hh, jar |-> cookies, ret |-> RetBool(FALSE), trace |-> <<ev>>]
        ELSE IF resp.status = StatusOK
        THEN [h |-> [hh EXCEPT !.has_html = TRUE, !.episode_html = resp.body],
              jar |-> cookies \cup resp.cookies,
              ret |-> RetBool(TRUE), trace |-> <<ev>>]
        ELSE [h |-> hh, jar |-> cookies \cup resp.cookies,
              ret |-> RetBool(FALSE), trace |-> <<ev>>]

\* SpotifyBrowser.navigate_to_episode
navigate_to_episode(hh, env, cookies, episode_url, in) ==
    IF hh.browser_mode = "requests"
    THEN navigate_to_episode_with_requests(hh, cookies, episode_url, in.resp)
    ELSE LET r == navigate_to_episode_with_browser(hh, env, episode_url, in.nav)
         IN  [h |-> hh, jar |-> cookies, ret |-> r.ret, trace |-> r.trace]

----------------------------------------------------------------------------
(* SpotifyBrowser._find_transcription_button_with_browser                  *)
(* in[i]: what candidate i does: "hidden" (its wait times out),            *)
(* "click_ok" (visible, the click returns), "click_raise" (visible, the    *)
(* click raises).                                                          *)

transcription_selectors ==
    << "button[aria-label=\"Show transcript\"]",
       "button:has-text(\"Show transcript\")",
       "[data-testid=\"transcript-button\"]",
       "button:has-text(\"Transcript\")" >>

ButtonOutcomes == {"hidden", "click_ok", "click_raise"}

\* one pass of the loop body for candidate i
button_attempt(i, o) ==
    IF o = "hidden"
    THEN <<Ev("page.wait_for_selector", transcription_selectors[i], "raise")>>
    ELSE <<Ev("page.wait_for_selector", transcription_selectors[i], "ok"),
           Ev("page.click", transcription_selectors[i],
              IF o = "click_ok" THEN "ok" ELSE "raise")>>

find_transcription_button_with_browser(hh, env, in) ==
    LET n == Len(transcription_selectors)
        o == [i \in 1..n |-> IF PageUsable(hh, env) THEN in[i] ELSE "hidden"]
        hit == FirstHit(n, [i \in 1..n |-> o[i] = "click_ok"])
        last == IF hit = 0 THEN n ELSE hit
    IN  IF hh.page = None
        THEN [ret |-> RetBool(FALSE), trace |-> <<>>]
        ELSE [ret |-> RetBool(hit # 0),
              trace |-> Concat([i \in 1..last |-> button_attempt(i, o[i])])]

\* find_transcription_button giving True in requests mode only when a body
\* is retained
find_transcription_button_needs_body(hh, env, cookies, in) ==
    IF hh.browser_mode = "requests"
    THEN [h |-> hh, jar |-> cookies, ret |-> RetBool(hh.has_html), trace |-> <<>>]
    ELSE LET r == find_transcription_button_with_browser(hh, env, in.buttons)
         IN  [h |-> hh, jar |-> cookies, ret |-> r.ret, trace |-> r.trace]

\* SpotifyBrowser.find_transcription_button
find_transcription_button(hh, env, cookies, in) ==
    IF hh.browser_mode = "requests"
    THEN [h |-> hh, jar |-> cookies, ret |-> RetBool(TRUE), trace |-> <<>>]
    ELSE LET r == find_transcription_button_with_browser(hh, env, in.buttons)
         IN  [h |-> hh, jar |-> cookies, ret |-> r.ret, trace |-> r.trace]

----------------------------------------------------------------------------
(* SpotifyBrowser._extract_transcription_text_with_browser                 *)
(* in.doc: the DOM of the page; in.fail: the call after the container      *)
(* search that raises: "query" (query_selector_all), "inner_text", or      *)
(* "none".                                                                 *)

AssembleFailures == {"none", "query", "inner_text"}

item_selector == "[data-testid=\"transcript-item\"]"

extract_transcription_text_with_browser(hh, env, in) ==
    LET n == Len(transcript_selectors)
        fc == IF PageUsable(hh, env) THEN find_container(in.doc)
              ELSE [sel |-> 0, elem |-> 0]
        last == IF fc.sel = 0 THEN n ELSE fc.sel
        polls == [i \in 1..last |->
                    Ev("page.wait_for_selector", transcript_selectors[i],
                       IF i = fc.sel THEN "ok" ELSE "raise")]
        c == in.doc.elems[fc.elem]
        items1 == in.doc.pageItems
        items2 == IF items1 = <<>> THEN c.ps ELSE items1
        items3 == IF items2 = <<>> THEN c.divs ELSE items2
        queries == <<EvVal("page.query_selector_all", item_selector, "ok", items1)>>
            \o (IF items1 = <<>>
                THEN <<EvVal("container.query_selector_all", "div > p", "ok", c.ps)>>
                ELSE <<>>)
            \o (IF items2 = <<>>
                THEN <<EvVal("container.query_selector_all", "div", "ok", c.divs)>>
                ELSE <<>>)
        joined == join_items_browser(items3)
        transcript_text == IF joined = <<>> THEN c.text ELSE joined
    IN  IF hh.page = None
        THEN [ret |-> RetNone, trace |-> <<>>]
        ELSE IF fc.sel = 0
        THEN [ret |-> RetNone, trace |-> polls]
        ELSE IF in.fail = "query"
        THEN [ret |-> RetNone,
              trace |-> polls \o <<Ev("page.query_selector_all", item_selector, "raise")>>]
        ELSE IF in.fail = "inner_text"
        THEN [ret |-> RetNone,
              trace |-> polls \o queries \o <<Ev("inner_text", "", "raise")>>]
        ELSE [ret |-> IF transcript_text # <<>> THEN RetText(strip(transcript_text))
                      ELSE RetNone,
              trace |-> polls \o queries]

----------------------------------------------------------------------------
(* SpotifyBrowser._extract_transcription_text_with_requests                *)
(* link: the response to the GET of the transcript hyperlink.              *)

\* transcript_url: the href, made absolute when it does not start with http
transcript_url(href) ==
    IF Head(href) \in {"http://", "https://"} THEN href
    ELSE <<"https://", "open.spotify.com">> \o href

\* the text of a found container
container_text_requests(c) ==
    LET items1 == c.items
        items2 == IF items1 = <<>> THEN c.ps ELSE items1
        items3 == IF items2 = <<>> THEN c.divs ELSE items2
        joined == join_items_requests(items3)
        transcript_text == IF joined = <<>> THEN strip(c.text) ELSE joined
    IN  IF transcript_text # <<>> THEN RetText(strip(transcript_text)) ELSE RetNone

\* the loop `for selector in [...]: container = soup.select_one(selector)`
container_polls_requests(doc) ==
    LET fc == find_container(doc)
        last == IF fc.sel = 0 THEN Len(transcript_selectors) ELSE fc.sel
    IN  [i \in 1..last |->
            Ev("soup.select_one", transcript_selectors[i],
               IF i = fc.sel THEN "ok" ELSE "none")]

\* the select calls on a found container
item_queries_requests(c) ==
    <<EvVal("container.select", item_selector, "ok", c.items)>>
    \o (IF c.items = <<>>
        THEN <<EvVal("container.select", "div > p", "ok", c.ps)>> ELSE <<>>)
    \o (IF c.items = <<>> /\ c.ps = <<>>
        THEN <<EvVal("container.select", "div", "ok", c.divs)>> ELSE <<>>)

\* the scan of the ld+json script blocks of a document
ld_transcript(doc) ==
    LET k == FirstHit(Len(doc.ld), [i \in 1..Len(doc.ld) |-> doc.ld[i].has])
    IN  IF k = 0 THEN RetNone ELSE RetText(doc.ld[k].transcript)

extract_transcription_text_with_requests(hh, cookies, link) ==
    LET soup1 == hh.episode_html
        fc1 == find_container(soup1)
        follow == fc1.sel = 0 /\ soup1.link # NoLink
        fetched == follow /\ ~link.raised /\ link.status = StatusOK
        evLink == Ev("session.get", transcript_url(soup1.link), link)
        jar1 == IF follow /\ ~link.raised THEN cookies \cup link.cookies ELSE cookies
        soup2 == IF fetched THEN link.body ELSE soup1
        fc2 == IF fetched THEN find_container(soup2) ELSE fc1
        polls == container_polls_requests(soup1)
            \o (IF follow THEN <<evLink>> ELSE <<>>)
            \o (IF fetched THEN container_polls_requests(soup2) ELSE <<>>)
    IN  IF ~hh.has_html
        THEN [h |-> hh, jar |-> cookies, ret |-> RetNone, trace |-> <<>>]
        ELSE IF soup1.empty
        THEN [h |-> hh, jar |-> cookies, ret |-> RetNone, trace |-> <<>>]
        ELSE IF follow /\ link.raised
        THEN [h |-> hh, jar |-> cookies, ret |-> RetNone,
              trace |-> container_polls_requests(soup1) \o <<evLink>>]
        ELSE IF fc2.sel # 0
        THEN [h |-> hh, jar |-> jar1,
              ret |-> container_text_requests(soup2.elems[fc2.elem]),
              trace |-> polls \o item_queries_requests(soup2.elems[fc2.elem])]
        ELSE [h |-> hh, jar |-> jar1, ret |-> ld_transcript(soup2), trace |-> polls]

\* SpotifyBrowser.extract_transcription_text
extract_transcription_text(hh, env, cookies, in) ==
    IF hh.browser_mode = "requests"
    THEN extract_transcription_text_with_requests(hh, cookies, in.link)
    ELSE LET r == extract_transcription_text_with_browser(hh, env, in)
         IN  [h |-> hh, jar |-> cookies, ret |-> r.ret, trace |-> r.trace]

----------------------------------------------------------------------------
(* extract_transcription (src/utils/transcription_extractor.py)            *)
(* The call of a handle method is recorded after the calls it made, with   *)
(* what it gave back.                                                      *)

\* how a method's outcome shows in the trace
Shown(ret) ==
    CASE ret.tag = "bool" -> IF ret.b THEN "True" ELSE "False"
      [] ret.tag = "none" -> "None"
      [] ret.tag = "text" -> "text"
      [] OTHER -> "raise"

\* a truth value that takes every string, the empty one too, for true
Truthy_any_text(ret) ==
    \/ ret.tag = "bool" /\ ret.b
    \/ ret.tag = "text"

\* Python's truth value of a method's outcome
Truthy(ret) ==
    \/ ret.tag = "bool" /\ ret.b
    \/ ret.tag = "text" /\ ret.t # <<>>

\* extract_transcription without the early return after a failed navigation
extract_transcription_no_early_return(hh, env, cookies, episode_url, in) ==
    LET nav == navigate_to_episode(hh, env, cookies, episode_url, in)
        t1 == nav.trace \o <<Ev("navigate_to_episode", episode_url, Shown(nav.ret))>>
        fb == find_transcription_button(nav.h, env, nav.jar, in)
        t2 == t1 \o fb.trace \o <<Ev("find_transcription_button", "", Shown(fb.ret))>>
        tx == extract_transcription_text(fb.h, env, fb.jar, in)
        t3 == t2 \o tx.trace \o <<EvVal("extract_transcription_text", "", Shown(tx.ret), tx.ret)>>
    IN  IF ~Truthy(fb.ret)
        THEN [h |-> fb.h, jar |-> fb.jar, ret |-> RetNone, trace |-> t2]
        ELSE [h |-> tx.h, jar |-> tx.jar,
              ret |-> IF Truthy(tx.ret) THEN tx.ret ELSE RetNone,
              trace |-> t3]

extract_transcription(hh, env, cookies, episode_url, in) ==
    LET nav == navigate_to_episode(hh, env, cookies, episode_url, in)
        t1 == nav.trace \o <<Ev("navigate_to_episode", episode_url, Shown(nav.ret))>>
        fb == find_transcription_button(nav.h, env, nav.jar, in)
        t2 == t1 \o fb.trace \o <<Ev("find_transcription_button", "", Shown(fb.ret))>>
        tx == extract_transcription_text(fb.h, env, fb.jar, in)
        t3 == t2 \o tx.trace \o <<EvVal("extract_transcription_text", "", Shown(tx.ret), tx.ret)>>
    IN  IF ~Truthy(nav.ret)
        THEN [h |-> nav.h, jar |-> nav.jar, ret |-> RetNone, trace |-> t1]
        ELSE IF ~Truthy(fb.ret)
        THEN [h |-> fb.h, jar |-> fb.jar, ret |-> RetNone, trace |-> t2]
        ELSE [h |-> tx.h, jar |-> tx.jar,
              ret |-> IF Truthy(tx.ret) THEN tx.ret ELSE RetNone,
              trace |-> t3]

----------------------------------------------------------------------------
(* Inputs of the actions: what the page and the network do during a call.  *)
(* The credentials are not modelled: no branch of the code reads them.     *)

\* the login page sets no cookie
LoginGets ==
    {RespRaised} \cup {Resp(st, LOGIN_URL, None, {}) : st \in Statuses}

\* the identity endpoint sets a tracking cookie, and the session cookie or not
LoginPosts ==
    {RespRaised} \cup
    {Resp(StatusOK, u, None, c) :
        u \in Urls, c \in {{TrackingCookie}, CookieNames}}

\* the responses to the GET of an episode URL
EpisodeResps(url) ==
    {RespRaised, Resp(404, url, DocPlain, {})} \cup
    {Resp(StatusOK, url, b, {}) : b \in Bodies}

\* the responses to the GET of a transcript hyperlink
LinkResps ==
    {RespRaised, Resp(404, NoUrl, DocPlain, {})} \cup
    {Resp(StatusOK, NoUrl, b, {}) : b \in LinkedBodies}

ButtonInputs == [1..Len(transcription_selectors) -> ButtonOutcomes]

\* the inputs no branch of the current mode reads
DefaultIn ==
    [pre |-> "ok", banner |-> FALSE, textOk |-> TRUE,
     vis |-> [i \in 1..Len(success_selectors) |-> FALSE],
     url |-> LOGIN_URL, get |-> RespRaised, post |-> RespRaised,
     nav |-> "ok", resp |-> RespRaised,
     buttons |-> [i \in 1..Len(transcription_selectors) |-> "hidden"],
     doc |-> DocPlain, fail |-> "none", link |-> RespRaised]

\* a call that ends the method early leaves the later inputs unread: they
\* vary only when it does not
LoginInputs(mode) ==
    IF mode = "requests"
    THEN {[DefaultIn EXCEPT !.get = g] : g \in LoginGets} \cup
         {[DefaultIn EXCEPT !.get = Resp(StatusOK, LOGIN_URL, None, {}), !.post = p] :
            p \in LoginPosts}
    ELSE {[DefaultIn EXCEPT !.pre = o] : o \in LoginPreOutcomes \ {"ok"}} \cup
         {[DefaultIn EXCEPT !.banner = x[1], !.textOk = x[2], !.vis = x[3], !.url = x[4]] :
            x \in BOOLEAN \X BOOLEAN \X [1..Len(success_selectors) -> BOOLEAN] \X Urls}

NavigateInputs(mode, url) ==
    IF mode = "requests"
    THEN {[DefaultIn EXCEPT !.resp = r] : r \in EpisodeResps(url)}
    ELSE {[DefaultIn EXCEPT !.nav = o] : o \in NavOutcomes}

FindInputs(mode) ==
    IF mode = "requests" THEN {DefaultIn}
    ELSE {[DefaultIn EXCEPT !.buttons = b] : b \in ButtonInputs}

AssembleInputs(mode) ==
    IF mode = "requests"
    THEN {[DefaultIn EXCEPT !.link = r] : r \in LinkResps}
    ELSE {[DefaultIn EXCEPT !.doc = d, !.fail = f] : d \in Docs, f \in AssembleFailures}

\* what the driver and the engines do during a construction.  The release
\* call that raises in the close() of the failure path varies for one failing
\* construction, the one whose three attempts all stop at new_page
OpenInputs ==
    {[startOk |-> s, outs |-> o, failAt |-> "none"] :
        s \in BOOLEAN, o \in [EngineSet -> EngineOutcomes]} \cup
    {[startOk |-> TRUE, outs |-> [e \in EngineSet |-> "page"], failAt |-> f] :
        f \in CloseSteps}

\* the button inputs of a whole extraction: the last two candidates stay hidden
ExtractButtonInputs == {b \in ButtonInputs : b[3] = "hidden" /\ b[4] = "hidden"}

ExtractInputs(mode, url) ==
    IF mode = "requests"
    THEN {[DefaultIn EXCEPT !.resp = r, !.link = l] :
            r \in EpisodeResps(url), l \in LinkResps}
    ELSE {[DefaultIn EXCEPT !.nav = x[1], !.buttons = x[2], !.doc = x[3], !.fail = x[4]] :
            x \in NavOutcomes \X ExtractButtonInputs \X Docs \X AssembleFailures}

----------------------------------------------------------------------------
(* The web application (src/app.py).  Every request runs its handler in a  *)
(* thread of its own; a handler is a sequence of steps, one step per call  *)
(* of a handle method it starts or sees return.  Between the step that     *)
(* starts a call and the step at which it returns, the operation is in     *)
(* flight on the handle; what it does to the handle takes effect when it   *)
(* returns.                                                                *)

\* the URLs a client submits as episode_url
AppUrls ==
    { <<"https://", "open.spotify.com", "/", "episode", "/", "1">>,
      <<"https://", "open.spotify.com", "/", "show", "/", "1">>,
      <<"https://", "open.spotify.com", "/", "search", "/", "episode">>,
      <<"https://", "evil.example", "/", "episode", "/", "1">> }

\* urlparse(url).path
path(url) == SubSeq(url, 3, Len(url))

\* the URL test of extract and api_transcription
valid_episode_url(url) ==
    netloc(url) = "open.spotify.com" /\ Contains(<<"episode">>, path(url))

\* a request slot: no request, or the position of a handler.  form: the
\* request carries credentials; sess: the handler's copy of the Flask
\* session holds credentials; hd: the handle of the call in flight (for
\* api_transcription: api_browser); op: the call in flight; calls: the calls
\* the handler has made; status: what it answers
NoRequest ==
    [kind |-> "none", pc |-> "none", url |-> NoUrl, form |-> FALSE, sess |-> FALSE,
     hd |-> 0, op |-> "none", calls |-> {}, status |-> "none"]

\* a SpotifyBrowser object: its fields, the resources it started, its cookies
Handle(hh, env, cookies) == [h |-> hh, env |-> env, jar |-> cookies]

\* what the environment does during the calls of a handler
AppOpenInputs ==
    {[startOk |-> s, outs |-> [e \in EngineSet |-> "ok"], failAt |-> "none"] :
        s \in BOOLEAN}

AppCloseSteps == {"none", "browser"}

AppLoginInputs(mode) ==
    IF mode = "requests"
    THEN {[DefaultIn EXCEPT !.get = Resp(StatusOK, LOGIN_URL, None, {}),
                            !.post = Resp(StatusOK, u, None, {TrackingCookie})] :
            u \in {<<"https://", "open.spotify.com", "/">>, LOGIN_URL}}
    ELSE {[DefaultIn EXCEPT !.vis = [i \in 1..Len(success_selectors) |-> i = 1]],
          [DefaultIn EXCEPT !.banner = TRUE]}

AppExtractInputs(mode, url) ==
    IF mode = "requests"
    THEN {[DefaultIn EXCEPT !.resp = r] :
            r \in {Resp(StatusOK, url, DocItems, {}), Resp(404, url, DocPlain, {})}}
    ELSE {[DefaultIn EXCEPT !.nav = o, !.doc = DocItems,
                            !.buttons = [i \in 1..Len(transcription_selectors) |->
                                            IF i = 1 THEN "click_ok" ELSE "hidden"]] :
            o \in {"ok", "goto"}}

\* the handler of request r moves to position pc with these fields changed
Step(r, new) == reqs' = [reqs EXCEPT ![r] = new]

\* the handler of r answers
Answer(r, status) == [reqs[r] EXCEPT !.pc = "done", !.op = "none", !.status = status]

\* the handle a handler's statement refers to: api_browser in
\* api_transcription, the module-level spotify_browser in the others
Target(r) == IF reqs[r].kind = "api" THEN reqs[r].hd ELSE spotify_browser

\* a request arrives; its handler gets the Flask session of the client that
\* sent it, one of the session cookies issued so far (api_transcription does
\* not read the session)
Receive(r) ==
    /\ reqs[r].kind = "none"
    /\ started < MaxStarted
    /\ started' = started + 1
    /\ \/ \E f \in BOOLEAN, c \in clientSessions :
            Step(r, [NoRequest EXCEPT !.kind = "login", !.pc = "start", !.form = f,
                                      !.sess = c])
       \/ \E u \in AppUrls, c \in clientSessions :
            Step(r, [NoRequest EXCEPT !.kind = "extract", !.pc = "start", !.url = u,
                                      !.sess = c])
       \/ \E c \in clientSessions :
            Step(r, [NoRequest EXCEPT !.kind = "logout", !.pc = "start", !.sess = c])
       \/ \E u \in AppUrls, f \in BOOLEAN :
            Step(r, [NoRequest EXCEPT !.kind = "api", !.pc = "start", !.url = u,
                                      !.form = f])
    /\ UNCHANGED <<spotify_browser, handles, clientSessions, handleLog>>
    /\ UNCHANGED <<PLAYWRIGHT_AVAILABLE, handleVars>>

\* login(): the form check, the credentials into the session, and the start
\* of the close() of the existing handle
LoginStart(r) ==
    /\ reqs[r].kind = "login" /\ reqs[r].pc = "start"
    /\ IF ~reqs[r].form
       THEN Step(r, Answer(r, "missing credentials"))
       ELSE IF spotify_browser # 0
       THEN Step(r, [reqs[r] EXCEPT !.sess = TRUE, !.pc = "close_ret",
                                    !.hd = spotify_browser, !.op = "close",
                                    !.calls = @ \cup {"close"}])
       ELSE Step(r, [reqs[r] EXCEPT !.sess = TRUE, !.pc = "construct"])
    /\ UNCHANGED <<spotify_browser, handles, clientSessions, handleLog, started>>
    /\ UNCHANGED <<PLAYWRIGHT_AVAILABLE, handleVars>>

\* extract(): the URL test, the session test and the test of the handle
ExtractStart(r) ==
    /\ reqs[r].kind = "extract" /\ reqs[r].pc = "start"
    /\ IF ~valid_episode_url(reqs[r].url)
       THEN Step(r, Answer(r, "invalid url"))
       ELSE IF ~reqs[r].sess
       THEN Step(r, Answer(r, "log in first"))
       ELSE IF spotify_browser = 0
       THEN Step(r, [reqs[r] EXCEPT !.pc = "construct"])
       ELSE IF ~is_active(handles[spotify_browser].h)
       THEN Step(r, [reqs[r] EXCEPT !.pc = "construct",
                                    !.calls = @ \cup {"is_active"}])
       ELSE Step(r, [reqs[r] EXCEPT !.pc = "extract_call",
                                    !.calls = @ \cup {"is_active"}])
    /\ UNCHANGED <<spotify_browser, handles, clientSessions, handleLog, started>>
    /\ UNCHANGED <<PLAYWRIGHT_AVAILABLE, handleVars>>

\* logout(): the start of the close() of the handle, if there is one
LogoutStart(r) ==
    /\ reqs[r].kind = "logout" /\ reqs[r].pc = "start"
    /\ IF spotify_browser # 0
       THEN Step(r, [reqs[r] EXCEPT !.pc = "close_ret", !.hd = spotify_browser,
                                    !.op = "close", !.calls = @ \cup {"close"}])
       ELSE Step(r, [Answer(r, "logged out") EXCEPT !.sess = FALSE])
    /\ UNCHANGED <<spotify_browser, handles, clientSessions, handleLog, started>>
    /\ UNCHANGED <<PLAYWRIGHT_AVAILABLE, handleVars>>

\* api_transcription(): the URL test and the credentials test
ApiStart(r) ==
    /\ reqs[r].kind = "api" /\ reqs[r].pc = "start"
    /\ IF ~valid_episode_url(reqs[r].url)
       THEN Step(r, Answer(r, "400 invalid url"))
       ELSE IF ~reqs[r].form
       THEN Step(r, Answer(r, "400 missing credentials"))
       ELSE Step(r, [reqs[r] EXCEPT !.pc = "construct"])
    /\ UNCHANGED <<spotify_browser, handles, clientSessions, handleLog, started>>
    /\ UNCHANGED <<PLAYWRIGHT_AVAILABLE, handleVars>>

\* the new handle c.h is stored: in api_browser by api_transcription, in the
\* module-level spotify_browser by login and extract
Constructed(r, c) ==
    /\ handles' = Append(handles, Handle(c.h, c.env, {}))
    /\ handleLog' = Append(handleLog,
                           [owner |-> IF reqs[r].kind = "api" THEN "api_browser"
                                      ELSE "spotify_browser",
                            login |-> "none", closed |-> FALSE])
    /\ IF reqs[r].kind = "api"
       THEN /\ Step(r, [reqs[r] EXCEPT !.pc = "login_call", !.hd = Len(handles) + 1,
                                       !.calls = @ \cup {"SpotifyBrowser"}])
            /\ UNCHANGED spotify_browser
       ELSE /\ Step(r, [reqs[r] EXCEPT !.pc = "login_call",
                                       !.calls = @ \cup {"SpotifyBrowser"}])
            /\ spotify_browser' = Len(handles) + 1

\* spotify_browser = SpotifyBrowser()  /  api_browser = SpotifyBrowser(...)
Construct(r) ==
    /\ reqs[r].pc = "construct"
    /\ \E in \in AppOpenInputs :
         Constructed(r, init(Env(FALSE, {}, {}, {}), PLAYWRIGHT_AVAILABLE,
                             in.startOk, in.outs, in.failAt))
    /\ UNCHANGED <<clientSessions, started>>
    /\ UNCHANGED <<PLAYWRIGHT_AVAILABLE, handleVars>>

\* the call of <handle>.login(...) starts; on None it raises AttributeError,
\* which the handler's except branch answers
LoginCall(r) ==
    /\ reqs[r].pc = "login_call"
    /\ IF Target(r) = 0
       THEN Step(r, Answer(r, "error"))
       ELSE Step(r, [reqs[r] EXCEPT !.pc = "login_ret", !.hd = Target(r),
                                    !.op = "login", !.calls = @ \cup {"login"}])
    /\ UNCHANGED <<spotify_browser, handles, clientSessions, handleLog, started>>
    /\ UNCHANGED <<PLAYWRIGHT_AVAILABLE, handleVars>>

\* login has returned l.ret on the handle o: what each handler does with it
LoginReturned(r, o, l) ==
    /\ handles' = [handles EXCEPT ![reqs[r].hd] = Handle(l.h, o.env, l.jar)]
    /\ handleLog' = [handleLog EXCEPT ![reqs[r].hd].login = Shown(l.ret)]
    /\ IF Truthy(l.ret)
       THEN IF reqs[r].kind = "login"
            THEN Step(r, Answer(r, "logged in"))
            ELSE Step(r, [reqs[r] EXCEPT !.pc = "extract_call", !.op = "none"])
       ELSE IF reqs[r].kind = "login"
            THEN Step(r, [Answer(r, "login failed") EXCEPT !.sess = FALSE])
            ELSE IF reqs[r].kind = "extract"
            THEN Step(r, Answer(r, "login failed"))
            ELSE Step(r, [reqs[r] EXCEPT !.pc = "close_ret", !.op = "close",
                                         !.status = "401",
                                         !.calls = @ \cup {"close"}])

\* the call of login returns
LoginReturn(r) ==
    /\ reqs[r].pc = "login_ret"
    /\ \E in \in AppLoginInputs(handles[reqs[r].hd].h.browser_mode) :
         LoginReturned(r, handles[reqs[r].hd],
                       login(handles[reqs[r].hd].h, handles[reqs[r].hd].env,
                             handles[reqs[r].hd].jar, in))
    /\ UNCHANGED <<spotify_browser, clientSessions, started>>
    /\ UNCHANGED <<PLAYWRIGHT_AVAILABLE, handleVars>>

\* the call of extract_transcription(<handle>, episode_url) starts; given
\* None it catches the AttributeError and returns None
ExtractCall(r) ==
    /\ reqs[r].pc = "extract_call"
    /\ IF Target(r) = 0
       THEN Step(r, [Answer(r, "not found") EXCEPT
                        !.calls = @ \cup {"extract_transcription"}])
       ELSE Step(r, [reqs[r] EXCEPT !.pc = "extract_ret", !.hd = Target(r),
                                    !.op = "extract_transcription",
                                    !.calls = @ \cup {"extract_transcription"}])
    /\ UNCHANGED <<spotify_browser, handles, clientSessions, handleLog, started>>
    /\ UNCHANGED <<PLAYWRIGHT_AVAILABLE, handleVars>>

\* the handler's answer to what extract_transcription returned
ExtractStatus(ret) == IF Truthy(ret) THEN "transcription" ELSE "not found"

\* extract_transcription has returned x.ret on the handle o
ExtractReturned(r, o, x) ==
    /\ handles' = [handles EXCEPT ![reqs[r].hd] = Handle(x.h, o.env, x.jar)]
    /\ IF reqs[r].kind = "api"
       THEN Step(r, [reqs[r] EXCEPT !.pc = "close_ret", !.op = "close",
                                    !.status = ExtractStatus(x.ret),
                                    !.calls = @ \cup {"close"}])
       ELSE Step(r, Answer(r, ExtractStatus(x.ret)))

\* the call of extract_transcription returns
ExtractReturn(r) ==
    /\ reqs[r].pc = "extract_ret"
    /\ \E in \in AppExtractInputs(handles[reqs[r].hd].h.browser_mode, reqs[r].url) :
         ExtractReturned(r, handles[reqs[r].hd],
                         extract_transcription(handles[reqs[r].hd].h,
                                               handles[reqs[r].hd].env,
                                               handles[reqs[r].hd].jar, reqs[r].url, in))
    /\ UNCHANGED <<spotify_browser, clientSessions, handleLog, started>>
    /\ UNCHANGED <<PLAYWRIGHT_AVAILABLE, handleVars>>

\* close() has returned on the handle o, leaving it as c.h
Closed(r, o, c) ==
    /\ handles' = [handles EXCEPT ![reqs[r].hd] = Handle(c.h, c.env, o.jar)]
    /\ handleLog' = [handleLog EXCEPT ![reqs[r].hd].closed = TRUE]

\* the call of close() returns; logout then drops the module-level handle
CloseReturn(r) ==
    /\ reqs[r].pc = "close_ret"
    /\ \E failAt \in AppCloseSteps :
         Closed(r, handles[reqs[r].hd],
                close(handles[reqs[r].hd].h, handles[reqs[r].hd].env, failAt))
    /\ IF reqs[r].kind = "login"
       THEN /\ Step(r, [reqs[r] EXCEPT !.pc = "construct", !.op = "none"])
            /\ UNCHANGED spotify_browser
       ELSE IF reqs[r].kind = "logout"
       THEN /\ Step(r, [Answer(r, "logged out") EXCEPT !.sess = FALSE])
            /\ spotify_browser' = 0
       ELSE /\ Step(r, Answer(r, reqs[r].status))
            /\ UNCHANGED spotify_browser
    /\ UNCHANGED <<clientSessions, started>>
    /\ UNCHANGED <<PLAYWRIGHT_AVAILABLE, handleVars>>

\* the response leaves: its session cookie is the handler's Flask session
Respond(r) ==
    /\ reqs[r].pc = "done"
    /\ clientSessions' = IF reqs[r].kind = "api" THEN clientSessions
                         ELSE clientSessions \cup {reqs[r].sess}
    /\ Step(r, NoRequest)
    /\ UNCHANGED <<spotify_browser, handles, handleLog, started>>
    /\ UNCHANGED <<PLAYWRIGHT_AVAILABLE, handleVars>>

AppNext ==
    \/ \E r \in 1..MaxRequests : Receive(r)
    \/ \E r \in 1..MaxRequests : LoginStart(r)
    \/ \E r \in 1..MaxRequests : ExtractStart(r)
    \/ \E r \in 1..MaxRequests : LogoutStart(r)
    \/ \E r \in 1..MaxRequests : ApiStart(r)
    \/ \E r \in 1..MaxRequests : Construct(r)
    \/ \E r \in 1..MaxRequests : LoginCall(r)
    \/ \E r \in 1..MaxRequests : LoginReturn(r)
    \/ \E r \in 1..MaxRequests : ExtractCall(r)
    \/ \E r \in 1..MaxRequests : ExtractReturn(r)
    \/ \E r \in 1..MaxRequests : CloseReturn(r)
    \/ \E r \in 1..MaxRequests : Respond(r)

\* requests served one after the other: a request arrives when no handler
\* is running
SeqReceive(r) ==
    /\ \A q \in 1..MaxRequests : reqs[q].kind = "none"
    /\ Receive(r)

SeqAppNext ==
    \/ \E r \in 1..MaxRequests : SeqReceive(r)
    \/ \E r \in 1..MaxRequests : LoginStart(r)
    \/ \E r \in 1..MaxRequests : ExtractStart(r)
    \/ \E r \in 1..MaxRequests : LogoutStart(r)
    \/ \E r \in 1..MaxRequests : ApiStart(r)
    \/ \E r \in 1..MaxRequests : Construct(r)
    \/ \E r \in 1..MaxRequests : LoginCall(r)
    \/ \E r \in 1..MaxRequests : LoginReturn(r)
    \/ \E r \in 1..MaxRequests : ExtractCall(r)
    \/ \E r \in 1..MaxRequests : ExtractReturn(r)
    \/ \E r \in 1..MaxRequests : CloseReturn(r)
    \/ \E r \in 1..MaxRequests : Respond(r)

----------------------------------------------------------------------------
(* Actions *)

CurEnv == Env(liveDriver, liveBrowsers, liveContexts, livePages)

SetEnv(env) ==
    /\ liveDriver' = env.driver
    /\ liveBrowsers' = env.browsers
    /\ liveContexts' = env.contexts
    /\ livePages' = env.pages

Idle == result.op = "none"

\* position of the navigate_to_episode call in a trace of extract_transcription
NavEvent(t) == CHOOSE i \in 1..Len(t) : t[i].fn = "navigate_to_episode"

\* a call that leaves the resources alone ends with outcome r
Finish(op, r, d) ==
    /\ dom' = d
    /\ lastNav' = IF h.browser_mode # "requests" THEN lastNav
                  ELSE IF op = "navigate_to_episode" THEN Shown(r.ret)
                  ELSE IF op = "extract_transcription" THEN r.trace[NavEvent(r.trace)].out
                  ELSE lastNav
    /\ h' = r.h
    /\ jar' = r.jar
    /\ trace' = r.trace
    /\ result' = [op |-> op, ret |-> r.ret]
    /\ UNCHANGED <<PLAYWRIGHT_AVAILABLE, constructed, liveDriver, liveBrowsers,
                   liveContexts, livePages, liveSession, closeCalls>>
    /\ UNCHANGED appVars

\* spotify_browser = SpotifyBrowser()
Open ==
    /\ ~constructed
    /\ \E in \in OpenInputs :
         LET r == init(CurEnv, PLAYWRIGHT_AVAILABLE, in.startOk, in.outs, in.failAt)
         IN  /\ h' = r.h
             /\ SetEnv(r.env)
             /\ trace' = r.trace
             /\ result' = [op |-> "init", ret |-> r.ret]
    /\ constructed' = TRUE
    /\ liveSession' = TRUE
    /\ lastNav' = "none"
    /\ UNCHANGED <<PLAYWRIGHT_AVAILABLE, jar, closeCalls, dom>>
    /\ UNCHANGED appVars

\* spotify_browser.close()
Close ==
    /\ constructed /\ Idle
    /\ \E failAt \in CloseSteps :
         LET r == close(h, CurEnv, failAt)
         IN  /\ h' = r.h
             /\ SetEnv(r.env)
             /\ trace' = r.trace
             /\ result' = [op |-> "close", ret |-> r.ret]
    /\ closeCalls' = IF closeCalls < MaxCloseCalls THEN closeCalls + 1 ELSE closeCalls
    /\ UNCHANGED <<PLAYWRIGHT_AVAILABLE, constructed, liveSession, jar, dom, lastNav>>
    /\ UNCHANGED appVars

\* spotify_browser.login(username, password)
Login ==
    /\ constructed /\ Idle
    /\ \E in \in LoginInputs(h.browser_mode) :
         Finish("login", login(h, CurEnv, jar, in), NoDom)

\* spotify_browser.navigate_to_episode(episode_url)
Navigate ==
    /\ constructed /\ Idle
    /\ \E url \in EpisodeUrls : \E in \in NavigateInputs(h.browser_mode, url) :
         Finish("navigate_to_episode", navigate_to_episode(h, CurEnv, jar, url, in),
                NoDom)

\* spotify_browser.find_transcription_button()
FindButton ==
    /\ constructed /\ Idle
    /\ \E in \in FindInputs(h.browser_mode) :
         Finish("find_transcription_button",
                find_transcription_button(h, CurEnv, jar, in), NoDom)

\* spotify_browser.extract_transcription_text()
ExtractText ==
    /\ constructed /\ Idle
    /\ \E in \in AssembleInputs(h.browser_mode) :
         Finish("extract_transcription_text",
                extract_transcription_text(h, CurEnv, jar, in), in.doc)

\* extract_transcription(spotify_browser, episode_url)
ExtractTranscription ==
    /\ constructed /\ Idle
    /\ \E url \in EpisodeUrls : \E in \in ExtractInputs(h.browser_mode, url) :
         Finish("extract_transcription",
                extract_transcription(h, CurEnv, jar, url, in), in.doc)

\* the call has returned: the caller goes on with the handle alone
Return ==
    /\ ~Idle
    /\ result' = [op |-> "none", ret |-> RetNone]
    /\ trace' = <<>>
    /\ dom' = NoDom
    /\ UNCHANGED <<PLAYWRIGHT_AVAILABLE, h, constructed, liveDriver, liveBrowsers,
                   liveContexts, livePages, liveSession, jar, closeCalls, lastNav>>
    /\ UNCHANGED appVars

Init ==
    /\ PLAYWRIGHT_AVAILABLE \in BOOLEAN
    /\ h = NoHandle
    /\ constructed = FALSE
    /\ liveDriver = FALSE
    /\ liveBrowsers = {}
    /\ liveContexts = {}
    /\ livePages = {}
    /\ liveSession = FALSE
    /\ jar = {}
    /\ closeCalls = 0
    /\ trace = <<>>
    /\ result = [op |-> "none", ret |-> RetNone]
    /\ dom = NoDom
    /\ lastNav = "none"
    /\ spotify_browser = 0
    /\ handles = <<>>
    /\ clientSessions = {FALSE}
    /\ handleLog = <<>>
    /\ reqs = [r \in 1..MaxRequests |-> NoRequest]
    /\ started = 0

Next ==
    \/ Open
    \/ Close
    \/ Login
    \/ Navigate
    \/ FindButton
    \/ ExtractText
    \/ ExtractTranscription
    \/ Return

Spec == Init /\ [][Next]_vars

\* the web application serving concurrent requests
AppSpec == Init /\ [][AppNext]_vars

\* the web application serving its requests one at a time
SeqAppSpec == Init /\ [][SeqAppNext]_vars

----------------------------------------------------------------------------
(* Properties *)

Events(fn) == {i \in 1..Len(trace) : trace[i].fn = fn}

Called(fn, out) == {i \in Events(fn) : trace[i].out = out}

IsWait(e) == e.fn = "page.wait_for_selector"

IsClick(e) == e.fn = "page.click"

BrowserMode == h.browser_mode = "playwright"

HttpMode == h.browser_mode = "requests"

\* C1: in a run of extract_transcription, find_transcription_button is called
\* only after navigate_to_episode gave True and extract_transcription_text
\* only after find_transcription_button gave True; once navigate or locate
\* gave something else nothing more is called and the result is None.
C1_ShortCircuit ==
    result.op = "extract_transcription" =>
        /\ \A i \in Events("find_transcription_button") :
              \E j \in Called("navigate_to_episode", "True") : j < i
        /\ \A i \in Events("extract_transcription_text") :
              \E j \in Called("find_transcription_button", "True") : j < i
        /\ \A j \in Events("navigate_to_episode") \cup Events("find_transcription_button") :
              trace[j].out # "True" => j = Len(trace) /\ result.ret = RetNone

\* a run that stopped at the locator: navigation succeeded, no control found
C1_Witness ==
    /\ result.op = "extract_transcription"
    /\ Called("navigate_to_episode", "True") # {}
    /\ Called("find_transcription_button", "False") # {}
    /\ Events("extract_transcription_text") = {}

\* C2: close() does not raise, and is_active() is false after a close() and
\* after a second one, also when a release call of close() fails.
C2_CloseTwiceInactive ==
    (result.op = "close" /\ closeCalls >= 1) =>
        result.ret.tag # "raised" /\ ~is_active(h)

\* C3: after close() the context, the browser, the driver and the HTTP
\* session are neither live nor referenced by the handle.
C3_CloseReleasesAll ==
    result.op = "close" =>
        /\ h.context = None /\ h.browser = None /\ h.playwright = None
        /\ ~liveDriver /\ liveBrowsers = {} /\ liveContexts = {} /\ livePages = {}
        /\ ~liveSession

\* the engines _initialize_browser launched or tried to launch, in order
Attempted == [i \in 1..Cardinality(Events("launch")) |->
                trace[CHOOSE k \in Events("launch") :
                        Cardinality({m \in Events("launch") : m < k}) = i - 1].arg]

\* the engine attempt gave a page
Yielded(e) == \E i \in Called("new_page", "ok") : trace[i].arg = e

\* the Playwright runtime is importable and its driver started
RuntimeAvailable == PLAYWRIGHT_AVAILABLE /\ Called("playwright.start", "ok") # {}

\* C4: construction tries Chromium, Firefox, WebKit in this order, goes on
\* after a failed attempt and stops at the first attempt that gives a page;
\* the handle is in requests mode exactly when no browser runtime is
\* available or all three attempts failed; construction does not raise; a
\* handle in browser mode has a live browser and a live page.
C4_EngineFallback ==
    result.op = "init" =>
        /\ result.ret.tag # "raised"
        /\ Len(Attempted) <= Len(Engines)
        /\ \A i \in 1..Len(Attempted) : Attempted[i] = Engines[i]
        /\ \A i \in 1..Len(Attempted) :
              /\ Yielded(Attempted[i]) => i = Len(Attempted)
              /\ (~Yielded(Attempted[i]) /\ i < Len(Engines)) => i < Len(Attempted)
        /\ RuntimeAvailable => Len(Attempted) >= 1
        /\ HttpMode <=>
              \/ ~RuntimeAvailable
              \/ /\ Len(Attempted) = Len(Engines)
                 /\ \A i \in 1..Len(Engines) : ~Yielded(Engines[i])
        /\ ~HttpMode =>
              /\ BrowserMode
              /\ h.browser # None /\ h.browser \in liveBrowsers
              /\ h.page # None /\ h.page \in livePages
              /\ Yielded(h.browser) /\ h.page = h.browser

\* Chromium failed, Firefox gave the page
C4_Witness ==
    /\ result.op = "init"
    /\ BrowserMode
    /\ h.browser = "firefox"
    /\ Called("launch", "ok") # {} /\ ~Yielded("chromium")

\* C5: is_active() is true for every handle that was opened and not yet
\* closed, in either mode, and false once the handle was closed.
C5_ActiveUntilClosed ==
    constructed => (is_active(h) <=> closeCalls = 0)

BoolMethods == {"login", "navigate_to_episode", "find_transcription_button"}

TextMethods == {"extract_transcription_text", "extract_transcription"}

OnPrimaryDomain(url) == netloc(url) = "open.spotify.com"

\* C7: in HTTP mode a login whose GET and POST both completed gives True
\* exactly when the final URL of the POST is on the primary domain or a
\* cookie with the session pattern is in the jar.
C7_HttpLoginResult ==
    (result.op = "login" /\ HttpMode /\ Len(trace) = 2 /\ ~trace[2].out.raised) =>
        /\ trace[1].fn = "session.get" /\ trace[2].fn = "session.post"
        /\ result.ret.b <=>
              \/ OnPrimaryDomain(trace[2].out.url)
              \/ \E c \in jar : is_session_cookie(c)

Submitted ==
    \E i \in Called("page.click", "ok") : trace[i].arg = "#login-button"

BannerPresent ==
    \E i \in Called("page.wait_for_selector", "ok") : trace[i].arg = error_selector

\* the success indicators polled, in the order of the polls
IndicatorPolls ==
    SelectSeq(trace, LAMBDA e : IsWait(e) /\ e.arg \in
                {success_selectors[i] : i \in 1..Len(success_selectors)})

UrlRead == Events("page.url") # {}

\* C8: in browser mode, after the submit: with the error banner present the
\* login gives False and polls no indicator; without it the indicators are
\* polled in declared order up to the first visible one, which gives True;
\* if none is visible the result is True exactly when the page URL is a
\* post-login location.
C8_BrowserLoginCheck ==
    (result.op = "login" /\ BrowserMode /\ Submitted) =>
        /\ BannerPresent => result.ret = RetBool(FALSE) /\ IndicatorPolls = <<>>
        /\ ~BannerPresent =>
              /\ \A i \in 1..Len(IndicatorPolls) :
                    /\ IndicatorPolls[i].arg = success_selectors[i]
                    /\ IndicatorPolls[i].out = "ok" =>
                          i = Len(IndicatorPolls) /\ result.ret = RetBool(TRUE)
              /\ (\A i \in 1..Len(IndicatorPolls) : IndicatorPolls[i].out # "ok") =>
                    /\ Len(IndicatorPolls) = Len(success_selectors)
                    /\ UrlRead
                    /\ result.ret.b <=>
                          \E i \in Events("page.url") : url_indicates_success(trace[i].arg)

\* C9: in HTTP mode navigate_to_episode gives True exactly when the GET
\* arrived with status 200, and then the handle retains the body of that
\* response; another status or a raised GET gives False.
C9_HttpNavigate ==
    (result.op = "navigate_to_episode" /\ HttpMode) =>
        /\ Len(trace) = 1 /\ trace[1].fn = "session.get"
        /\ result.ret.tag = "bool"
        /\ result.ret.b <=> (~trace[1].out.raised /\ trace[1].out.status = StatusOK)
        /\ result.ret.b => h.has_html /\ h.episode_html = trace[1].out.body

\* a successful navigation that retained a body with transcript items
C9_Witness ==
    /\ result.op = "navigate_to_episode" /\ HttpMode
    /\ result.ret = RetBool(TRUE)
    /\ h.has_html /\ h.episode_html = DocItems

\* the candidates polled and the candidates clicked, in order
ButtonPolls == SelectSeq(trace, IsWait)

ButtonClicks == SelectSeq(trace, IsClick)

\* C10: in browser mode find_transcription_button polls the candidates in
\* declared order, clicks the first visible one and gives True, polls and
\* clicks nothing after that first visible candidate, clicks at most once,
\* and gives False exactly when no candidate is visible.
C10_FirstVisibleButton ==
    (result.op = "find_transcription_button" /\ BrowserMode) =>
        /\ \A i \in 1..Len(ButtonPolls) :
              /\ ButtonPolls[i].arg = transcription_selectors[i]
              /\ ButtonPolls[i].out = "ok" => i = Len(ButtonPolls)
        /\ Len(ButtonClicks) <= 1
        /\ result.ret.b <=> (\E i \in 1..Len(ButtonPolls) : ButtonPolls[i].out = "ok")
        /\ result.ret.b =>
              /\ Len(ButtonClicks) = 1
              /\ ButtonClicks[1].arg = ButtonPolls[Len(ButtonPolls)].arg

----------------------------------------------------------------------------
(* Text assembly *)

Assembled == result.op = "extract_transcription_text"

\* the item selectors in the order the assembler declares them
item_selectors == <<item_selector, "div > p", "div">>

IsContainerPoll(e) == e.fn \in {"page.wait_for_selector", "soup.select_one"}

IsItemQuery(e) ==
    e.fn \in {"page.query_selector_all", "container.query_selector_all",
              "container.select"}

\* position of the GET of the transcript hyperlink in the trace (past the
\* end: there was none)
LinkGet ==
    IF Events("session.get") = {} THEN Len(trace) + 1
    ELSE CHOOSE i \in Events("session.get") : TRUE

\* the container selectors evaluated on the first document, and those
\* evaluated on the document behind the transcript hyperlink
FirstPolls == SelectSeq(SubSeq(trace, 1, LinkGet - 1), IsContainerPoll)

LinkedPolls == SelectSeq(SubSeq(trace, LinkGet + 1, Len(trace)), IsContainerPoll)

\* the document the assembler reads first
FirstDoc == IF HttpMode THEN h.episode_html ELSE dom

ItemQueries == SelectSeq(trace, IsItemQuery)

\* the selectors were evaluated in declared order on doc, each matched
\* exactly when doc has a match for it, and none after the first match
FirstMatchWins(polls, doc) ==
    /\ Len(polls) <= Len(transcript_selectors)
    /\ \A i \in 1..Len(polls) :
          /\ polls[i].arg = transcript_selectors[i]
          /\ polls[i].out = "ok" <=> doc.containers[i] # 0
          /\ polls[i].out = "ok" => i = Len(polls)
    /\ (\A i \in 1..Len(polls) : polls[i].out # "ok") =>
          Len(polls) = Len(transcript_selectors)

\* texts joined with one blank line between consecutive texts
RECURSIVE JoinBlank(_)
JoinBlank(ts) ==
    IF ts = <<>> THEN <<>>
    ELSE IF Len(ts) = 1 THEN ts[1]
    ELSE ts[1] \o <<"\n", "\n">> \o JoinBlank(Tail(ts))

\* the trimmed texts of the items, the empty ones dropped
TrimmedNonEmpty(items) ==
    SelectSeq([i \in 1..Len(items) |-> strip(items[i])], LAMBDA t : t # <<>>)

\* the assembler ran on a usable document and no call of it raised
AssembledCleanly ==
    /\ Assembled
    /\ BrowserMode => PageUsable(h, CurEnv)
    /\ HttpMode => h.has_html /\ ~h.episode_html.empty
    /\ \A i \in 1..Len(trace) :
          /\ trace[i].fn = "session.get" => ~trace[i].out.raised
          /\ trace[i].fn \in {"page.query_selector_all", "inner_text"} =>
                trace[i].out = "ok"

\* C11: in both modes the assembler evaluates the container selectors in
\* declared order and takes the match of the first one that matches, without
\* evaluating a later one; it then applies the item selectors in the order
\* transcript item, `div > p`, `div`, going on only while a selector gave no
\* item, and the text it returns is built from the items of the last
\* selector applied: their trimmed non-empty texts, in order, one blank line
\* between them.
C11_FirstMatchCascade ==
    AssembledCleanly =>
        /\ FirstMatchWins(FirstPolls, FirstDoc)
        /\ LinkedPolls # <<>> => FirstMatchWins(LinkedPolls, trace[LinkGet].out.body)
        /\ Len(ItemQueries) <= Len(item_selectors)
        /\ \A i \in 1..Len(ItemQueries) :
              /\ ItemQueries[i].arg = item_selectors[i]
              /\ i < Len(ItemQueries) => ItemQueries[i].val = <<>>
              /\ ItemQueries[i].val = <<>> /\ i < Len(item_selectors) =>
                    i < Len(ItemQueries)
        /\ (ItemQueries # <<>> /\
            TrimmedNonEmpty(ItemQueries[Len(ItemQueries)].val) # <<>>) =>
              result.ret =
                 RetText(JoinBlank(TrimmedNonEmpty(ItemQueries[Len(ItemQueries)].val)))

\* browser mode, only the third container selector matches, the container
\* holds two items
C11_Witness ==
    /\ AssembledCleanly /\ BrowserMode
    /\ dom = DocItems
    /\ Len(FirstPolls) = 3 /\ FirstPolls[3].out = "ok"
    /\ result.ret = RetText(<<"a", "\n", "\n", "b">>)

\* two texts are the same, character by character
SameText(a, b) == Len(a) = Len(b) /\ \A i \in 1..Len(a) : a[i] = b[i]

\* C12: every text the assembler returns, on every path and in both modes,
\* has no leading and no trailing whitespace; a text built from items is the
\* trimmed non-empty item texts in order with one blank line between them.
C12_TrimmedText ==
    (Assembled /\ result.ret.tag = "text") =>
        /\ Len(result.ret.t) > 0 =>
              /\ ~IsSpace(result.ret.t[1])
              /\ ~IsSpace(result.ret.t[Len(result.ret.t)])
        /\ (Len(ItemQueries) > 0 /\
            Len(TrimmedNonEmpty(ItemQueries[Len(ItemQueries)].val)) > 0) =>
              SameText(result.ret.t,
                       JoinBlank(TrimmedNonEmpty(ItemQueries[Len(ItemQueries)].val)))

\* C13: the assembler never returns an empty text, and returns None when no
\* container is discoverable or the text obtained is empty after trimming.
C13_NeverEmptyText ==
    Assembled => ~(result.ret.tag = "text" /\ Len(result.ret.t) = 0)

\* the retained body has no transcript container
NoContainer(doc) == \A i \in 1..Len(transcript_selectors) : doc.containers[i] = 0

\* the structured-data blocks of a document that carry a transcript field
LdBlocks(doc) == {k \in 1..Len(doc.ld) : doc.ld[k].has}

\* C14: in HTTP mode, when the retained body has no container but a
\* structured-data block with a transcript field, the assembler returns that
\* transcript unless the page behind the transcript hyperlink gave a
\* container: also when the hyperlink could not be fetched (non-200,
\* transport error) or its page has no container.
C14_LdFallback ==
    (/\ Assembled /\ HttpMode /\ h.has_html /\ ~h.episode_html.empty
     /\ NoContainer(h.episode_html)
     /\ LdBlocks(h.episode_html) # {}
     /\ \A i \in 1..Len(LinkedPolls) : LinkedPolls[i].out # "ok") =>
        /\ result.ret.tag = "text"
        /\ \E k \in LdBlocks(h.episode_html) :
              SameText(result.ret.t, h.episode_html.ld[k].transcript)

\* the container the assembler found on the page
FoundContainer == dom.elems[dom.containers[Len(FirstPolls)]]

\* C17: in browser mode every item the assembler reads lies inside the
\* container it found: each item query gives the matching elements of that
\* container, so no element outside the container contributes to the text.
C17_ItemsInsideContainer ==
    (AssembledCleanly /\ BrowserMode /\ Len(ItemQueries) > 0) =>
        /\ Len(ItemQueries[1].val) = Len(FoundContainer.items)
        /\ \A k \in 1..Len(ItemQueries[1].val) :
              SameText(ItemQueries[1].val[k], FoundContainer.items[k])

\* what an HTTP-mode call of find_transcription_button leaves behind
HttpLocate ==
    (HttpMode /\ result.op = "find_transcription_button") =>
        result.ret = RetBool(TRUE) /\ trace = <<>>

\* in an HTTP-mode extract_transcription the locate step follows a successful
\* navigation at once, gives True, and the assembler is called
HttpExtractReachesAssemble ==
    (HttpMode /\ result.op = "extract_transcription"
        /\ Called("navigate_to_episode", "True") # {}) =>
        /\ \A i \in Called("navigate_to_episode", "True") :
              /\ i + 1 \in Called("find_transcription_button", "True")
        /\ Events("extract_transcription_text") # {}

\* C18: in HTTP mode find_transcription_button gives True in every state of
\* the handle, makes no library call and leaves the handle, the cookie jar
\* and the resources as they were; so an HTTP-mode extract_transcription
\* whose navigation gave True reaches the assembler.
C18_HttpLocateNoOp ==
    [][/\ HttpLocate'
       /\ HttpExtractReachesAssemble'
       /\ (HttpMode' /\ result'.op = "find_transcription_button") =>
             UNCHANGED <<h, jar, liveSession, liveDriver, liveBrowsers,
                         liveContexts, livePages>>]_vars

\* find_transcription_button on an HTTP-mode handle that retains no body
C18_Witness ==
    /\ HttpMode /\ result.op = "find_transcription_button"
    /\ ~h.has_html
    /\ result.ret = RetBool(TRUE)

\* C19: in HTTP mode the assembler called after a navigate_to_episode that
\* gave False returns None, never a text from a body retained earlier.
C19_NoStaleBody ==
    (Assembled /\ HttpMode /\ lastNav = "False") => result.ret.tag = "none"

\* C20: when construction ends, no browser launched by a failed engine
\* attempt is running: the only browser that may run is the one the handle
\* references; a handle that fell back to HTTP mode leaves no browser and no
\* driver running.
C20_NoLeakedBrowser ==
    result.op = "init" =>
        /\ \A b \in liveBrowsers : b = h.browser
        /\ HttpMode => liveBrowsers = {} /\ ~liveDriver

----------------------------------------------------------------------------
(* The callers *)

\* the URL is on the content domain and its path is /episode/<id>
IdentifiesEpisode(url) ==
    /\ netloc(url) = "open.spotify.com"
    /\ Len(path(url)) = 4
    /\ SubSeq(path(url), 1, 3) = <<"/", "episode", "/">>

\* the calls that construct a handle or reach the transport
TransportCalls == {"SpotifyBrowser", "login", "extract_transcription"}

\* a request whose URL fails the handlers' own test makes no such call
RejectedByUrlTest ==
    \A r \in 1..MaxRequests :
        (reqs[r].kind \in {"extract", "api"} /\ ~valid_episode_url(reqs[r].url))
            => reqs[r].calls \cap TransportCalls = {}

\* C15: an /extract or /api/transcription request whose URL is off the
\* content domain, or whose path does not identify an episode, constructs no
\* handle and makes no login or extract_transcription call.
C15_RejectBeforeTransport ==
    \A r \in 1..MaxRequests :
        (reqs[r].kind \in {"extract", "api"} /\ ~IdentifiesEpisode(reqs[r].url))
            => reqs[r].calls \cap TransportCalls = {}

\* C16: a handle has at most one operation in flight: no two requests have
\* a login, extract_transcription or close in flight on the same handle.
C16_OneOpInFlight ==
    \A r1, r2 \in 1..MaxRequests :
        (r1 # r2 /\ reqs[r1].op # "none" /\ reqs[r2].op # "none")
            => reqs[r1].hd # reqs[r2].hd

----------------------------------------------------------------------------
(* The orchestrator's result *)

\* the orchestrator has returned
Extracted == result.op = "extract_transcription"

\* the positions of the assembler's call in the orchestrator's trace
AssemblerCalls == {i \in 1..Len(trace) : trace[i].fn = "extract_transcription_text"}

\* what the orchestrator makes of the assembler's outcome v
Converted(v) == IF v.tag = "text" /\ Len(v.t) > 0 THEN v ELSE RetNone

\* C24: extract_transcription returns None or a non-empty text; a text it
\* returns is the one extract_transcription_text returned; an empty string
\* (or None) from the assembler becomes None and nothing else is altered.
C24_OnlyEmptyBecomesNone ==
    Extracted =>
        /\ result.ret.tag \in {"none", "text"}
        /\ result.ret.tag = "text" => Len(result.ret.t) > 0 /\ AssemblerCalls # {}
        /\ \A i \in AssemblerCalls :
              /\ result.ret.tag = Converted(trace[i].val).tag
              /\ SameText(result.ret.t, Converted(trace[i].val).t)

\* the assembler gave the empty string and the orchestrator returned None
C24_Witness ==
    /\ Extracted
    /\ \E i \in AssemblerCalls : trace[i].val.tag = "text" /\ Len(trace[i].val.t) = 0
    /\ result.ret.tag = "none"

----------------------------------------------------------------------------
(* Login over HTTP, attempt by attempt *)

\* an HTTP-mode login whose GET and POST both completed, and whose POST the
\* identity endpoint rejected: its final URL does not mention the primary
\* domain and it set no session cookie
RejectedAttempt ==
    /\ result.op = "login" /\ HttpMode
    /\ Len(trace) = 2 /\ ~trace[2].out.raised
    /\ ~Contains(<<"open.spotify.com">>, trace[2].out.url)
    /\ \A c \in trace[2].out.cookies : ~is_session_cookie(c)

\* C23: in HTTP mode a login call that the identity endpoint rejects returns
\* False, whatever an earlier login on the same handle left in the jar.
C23_LoginCurrentAttemptOnly ==
    RejectedAttempt => result.ret = RetBool(FALSE)

----------------------------------------------------------------------------
(* The handles of the request handlers *)

\* C21: the web-form handler calls extract_transcription only on a handle
\* whose latest login call returned True.
C21_ExtractOnLoggedInHandle ==
    \A r \in 1..MaxRequests :
        (reqs[r].kind = "extract" /\ reqs[r].op = "extract_transcription")
            => handleLog[reqs[r].hd].login = "True"

\* api_transcription has called close() on its handle when it answers
ApiClosesHandle ==
    \A r \in 1..MaxRequests :
        (reqs[r].kind = "api" /\ reqs[r].pc = "done" /\ reqs[r].hd # 0)
            => handleLog[reqs[r].hd].closed

\* C22: no handle is left unclosed: api_transcription has called close() on
\* its handle when it answers, and a handle made for the module-level
\* variable that the variable no longer holds has had close() called on it.
C22_NoHandleLeaked ==
    /\ ApiClosesHandle
    /\ \A i \in 1..Len(handles) :
          (handleLog[i].owner = "spotify_browser" /\ spotify_browser # i)
              => handleLog[i].closed

====
